---- MODULE Spec2Model ----
(***************************************************************************)
(* TookeyWeb3 (src/src/web3.ts): the session manager of the wallet SDK.    *)
(*                                                                         *)
(* One client instance, its axios request/response interceptors, the       *)
(* 'logout' listeners of the event emitter, and the asynchronous calls     *)
(* authWithDiscord, refreshToken, logout and fetchUser.                    *)
(*                                                                         *)
(* JavaScript is single threaded: a call runs until it awaits an HTTP      *)
(* request.  The arrival of a response is one step (the response           *)
(* interceptor runs on it); the continuations of the awaiting functions    *)
(* then run one after the other, before any other response is handled      *)
(* (the microtask queue drains first).  `cur` holds the value travelling   *)
(* up the chain of awaiting functions; while it is set, no other call      *)
(* moves.                                                                  *)
(***************************************************************************)
EXTENDS Naturals, Sequences, FiniteSets

\* ------------------------------------------------------------------ bounds
\* Number of calls that may be in flight at once.
MaxTasks == 2
\* Number of HTTP requests after which no new call is started and the server
\* stops answering 401 to a client that can refresh (requests the code is
\* already committed to, such as a retry, are still sent).
MaxRequests == 4
\* Bound on the createWallet/signTransaction calls made on the page.
MaxActions == 2
\* Bound on the messages posted to the window.
MaxMessages == 3

Tasks == 1..MaxTasks
\* Identities /api/users/me can answer with.
Users == {1, 2}
\* HTTP failures: 401, and 500 for every other failure (another status, or no
\* response at all: the interceptor's test `error.response && ...` sends both
\* down the same branch).
ErrorStatuses == {401, 500}

\* ------------------------------------------------------------------ values
NoToken == <<"none", 0>>
AccessToken(n) == <<"access", n>>
RefreshCredential(n) == <<"refresh", n>>
\* A slot of the interceptor array after eject(id): axios sets it to null.
Ejected == <<"ejected", 0>>
\* this._user === undefined
NoUser == 0

\* What a promise settles with.  kind: "response" (an axios response),
\* "error" (an AxiosError handed back as a resolved value), "return" (a
\* function of the class returned), "throw" (it threw); by: the place that
\* produced it; status: the HTTP status behind it (0 when there is none).
Value(kind, by, status, tok, rtok, usr, msg) ==
    [kind |-> kind, by |-> by, status |-> status, tok |-> tok, rtok |-> rtok,
     usr |-> usr, msg |-> msg]
NoValue == Value("none", "none", 0, NoToken, NoToken, NoUser, "")
Response(tok, rtok, usr) == Value("response", "passthrough", 200, tok, rtok, usr, "")
ErrorValue(by, status) == Value("error", by, status, NoToken, NoToken, NoUser, "")
Return(by, status, tok, usr) == Value("return", by, status, tok, NoToken, usr, "")
Throw(by, status, msg) == Value("throw", by, status, NoToken, NoToken, NoUser, msg)

Idle == [task |-> 0, val |-> NoValue]

\* The configured base URL, and the origins a window message can come from.
baseURL == "https://wallet.example"
Origins == {baseURL, "https://other.example"}
\* event.data: the literal 'close', or anything else.
Payloads == {"close", "done"}
Message(origin, data) == [origin |-> origin, data |-> data]
NoMessage == Message("", "")
\* What the host makes of openWindow: a window, null (popup blocked), or an
\* exception (no window object to call).
OpenOutcomes == {"window", "null", "throws"}

VARIABLES
    userRefreshToken,   \* this.userRefreshToken, NoToken when undefined
    user,               \* this._user, NoUser when undefined
    handlers,           \* this._client.interceptors.request: array of hooks
    listeners,          \* emitter: the 'logout' listeners, each ejects one id
    logoutEvents,       \* number of 'logout' events emitted
    loginEvents,        \* number of 'login' events emitted
    minted,             \* number of credentials the server has issued
    newest,             \* credential of the latest useCredentials since logout
    requests,           \* number of HTTP requests sent
    stack,              \* per call: the chain of awaiting functions/requests
    cur,                \* the value being handed up a chain, or Idle
    \* a second client instance of the same page (same module-level emitter)
    peerRefreshToken,   \* its userRefreshToken
    peerUser,           \* its _user
    peerHandlers,       \* its request interceptors
    peerListeners,      \* emitter: the 'logout' listeners it registered
    \* the out-of-band actions (createWallet, signTransaction)
    actions,            \* the calls made: popup, promise, close() calls
    messageListeners,   \* window: the 'message' listeners, one per call
    messages,           \* number of messages posted to the window
    lastMessage         \* the message posted last

peer == <<peerRefreshToken, peerUser, peerHandlers, peerListeners>>
broker == <<actions, messageListeners, messages, lastMessage>>
client == <<userRefreshToken, user, handlers, listeners, logoutEvents, loginEvents,
            minted, newest, requests, stack, cur>>

vars == <<client, peer, broker>>

session == <<userRefreshToken, user, handlers, listeners, logoutEvents, loginEvents, newest>>

\* ------------------------------------------------------------ frames
\* A frame of a chain: an awaiting function of the class (f is its name,
\* phase the await it is at) or a request of the axios client (f = "req").
\*   auth   : the Authorization header the request was sent with
\*   phase  : "sent" | "refreshing" | "retrying" for a request
\*   status : the status of the failure the interceptor is handling
\*   retry  : the request is the interceptor's re-send of a failed one
\*   expect : the newest installed credential when the request was sent
\*   data   : response.data kept by refreshToken across its awaits; for a
\*            re-sent request, the credential the refresh before it returned
\*   changed: (first frame of a call) the call has installed a hook or
\*            stored a refresh credential
Frame(f, url, auth, phase, retry, expect, data) ==
    [f |-> f, url |-> url, auth |-> auth, phase |-> phase, status |-> 0,
     retry |-> retry, expect |-> expect, data |-> data, changed |-> FALSE]
Awaiting(f, phase, data) == Frame(f, "", NoToken, phase, FALSE, NoToken, data)

Top(s) == s[Len(s)]
Pop(s) == SubSeq(s, 1, Len(s) - 1)
\* Number of requests a frame at position i is nested in.
Nesting(s, i) == Cardinality({j \in 1..(i - 1) : s[j].f = "req"})


\* ------------------------------------------------- request interceptors
\* axios runs the request interceptors in the reverse of the order they were
\* installed in (Axios.request unshifts each handler onto the chain), so the
\* hook installed first runs last.  Each live hook overwrites the header
\* (config.headers.set('Authorization', `Bearer ${accessToken}`), line 77);
\* an ejected slot is skipped.
RECURSIVE RunRequestInterceptors(_, _)
RunRequestInterceptors(hs, header) ==
    IF hs = <<>> THEN header
    ELSE LET afterLater == RunRequestInterceptors(Tail(hs), header)
         IN  IF Head(hs) = Ejected THEN afterLater ELSE Head(hs)

\* A request leaving the client: its header is what the interceptors make of
\* the header given in its config.
Send(url, hs, header, retry, nw, refreshed) ==
    Frame("req", url, RunRequestInterceptors(hs, header), "sent", retry, nw, refreshed)

\* useCredentials, lines 81-83: interceptors.request.use pushes the hook.
InstallHook(hs, accessToken) == Append(hs, accessToken)
\* useCredentials, lines 85-87: a 'logout' listener that ejects that hook.
SubscribeEject(ls, hs) == Append(ls, Len(hs) + 1)

\* emitter.emit('logout'): every listener runs; each ejects its own id.
EmitLogout(hs, ls) ==
    [i \in DOMAIN hs |->
        IF \E j \in DOMAIN ls : ls[j] = i THEN Ejected ELSE hs[i]]

\* get isLoggedIn, lines 59-61
isLoggedInByTokenAlone == userRefreshToken # NoToken
isLoggedIn == user # NoUser /\ userRefreshToken # NoToken

ActiveHooks == {i \in DOMAIN handlers : handlers[i] # Ejected}

\* --------------------------------------------------------- starting a call
\* A new call takes the lowest free slot.
CanStart(t) ==
    /\ cur = Idle
    /\ stack[t] = <<>>
    /\ \A o \in Tasks : o < t => stack[o] # <<>>
    /\ requests < MaxRequests

\* authWithDiscord, line 91: POST /api/auth/discord
StartAuth(t) ==
    /\ CanStart(t)
    /\ stack' = [stack EXCEPT ![t] =
          << Awaiting("authWithDiscord", "post", NoToken),
             Send("/api/auth/discord", handlers, NoToken, FALSE, newest, NoToken) >>]
    /\ requests' = requests + 1
    /\ UNCHANGED <<session, minted, cur>>
    /\ UNCHANGED <<broker, peer>>

\* What refreshToken does before its first await, lines 99-104: without a
\* stored refresh credential it throws (and its catch rethrows the normalized
\* error) without sending; otherwise it POSTs /api/auth/refresh with the
\* refresh credential as the Authorization header of the request config.
RefreshRequest(hs, nw) ==
    << Awaiting("refreshToken", "post", NoToken),
       Send("/api/auth/refresh", hs, userRefreshToken, FALSE, nw, NoToken) >>

StartRefresh(t) ==
    /\ CanStart(t)
    /\ IF userRefreshToken = NoToken
       THEN /\ cur' = [task |-> t, val |-> Throw("refreshToken", 0, "Refresh token failed")]
            /\ UNCHANGED <<stack, requests>>
       ELSE /\ stack' = [stack EXCEPT ![t] = RefreshRequest(handlers, newest)]
            /\ requests' = requests + 1
            /\ UNCHANGED cur
    /\ UNCHANGED <<session, minted>>
    /\ UNCHANGED <<broker, peer>>

\* logout, line 116: POST /api/auth/logout
StartLogout(t) ==
    /\ CanStart(t)
    /\ stack' = [stack EXCEPT ![t] =
          << Awaiting("logout", "post", NoToken),
             Send("/api/auth/logout", handlers, NoToken, FALSE, newest, NoToken) >>]
    /\ requests' = requests + 1
    /\ UNCHANGED <<session, minted, cur>>
    /\ UNCHANGED <<broker, peer>>

\* What fetchUser does before its await, line 126: GET /api/users/me
FetchUserRequest(hs, nw) ==
    << Awaiting("fetchUser", "get", NoToken),
       Send("/api/users/me", hs, NoToken, FALSE, nw, NoToken) >>

StartFetchUser(t) ==
    /\ CanStart(t)
    /\ stack' = [stack EXCEPT ![t] = FetchUserRequest(handlers, newest)]
    /\ requests' = requests + 1
    /\ UNCHANGED <<session, minted, cur>>
    /\ UNCHANGED <<broker, peer>>

\* ------------------------------------------- the server answers a request
InFlight(t) ==
    /\ cur = Idle
    /\ stack[t] # <<>>
    /\ Top(stack[t]).f = "req"
    /\ Top(stack[t]).phase = "sent"

\* The data of a 2xx answer, by endpoint (spec.md section 6 table; types in
\* src/src/types/auth.type.ts and user.type.ts).
Payload(url, n, u) ==
    CASE url = "/api/auth/discord" -> Response(AccessToken(n), RefreshCredential(n), NoUser)
      [] url = "/api/auth/refresh" -> Response(AccessToken(n), NoToken, NoUser)
      [] url = "/api/users/me"     -> Response(NoToken, NoToken, u)
      [] OTHER                     -> Response(NoToken, NoToken, NoUser)

Mints(url) == url \in {"/api/auth/discord", "/api/auth/refresh"}

\* Response interceptor, line 27: a 2xx response is passed through.
Respond2xx(t) ==
    /\ InFlight(t)
    /\ LET url == Top(stack[t]).url IN
       /\ \E u \in (IF url = "/api/users/me" THEN Users ELSE {NoUser}) :
             cur' = [task |-> t, val |-> Payload(url, minted + 1, u)]
       /\ minted' = IF Mints(url) THEN minted + 1 ELSE minted
    /\ stack' = [stack EXCEPT ![t] = Pop(@)]
    /\ UNCHANGED <<session, requests>>
    /\ UNCHANGED <<broker, peer>>

\* Response interceptor, line 29
ShouldRefresh(status) == status = 401 /\ userRefreshToken # NoToken

\* Response interceptor, lines 29-31: a 401 while a refresh credential is
\* stored calls refreshToken(), which sends its request at once.
Respond401Refresh(t) ==
    /\ InFlight(t)
    /\ ShouldRefresh(401)
    /\ requests < MaxRequests
    /\ stack' = [stack EXCEPT ![t] =
          [@ EXCEPT ![Len(@)].phase = "refreshing", ![Len(@)].status = 401]
          \o RefreshRequest(handlers, newest)]
    /\ requests' = requests + 1
    /\ UNCHANGED <<session, minted, cur>>
    /\ UNCHANGED <<broker, peer>>

\* Response interceptor, lines 37-39: any other failure is returned, so the
\* promise of the request resolves with the error object.
RespondFail(t) ==
    /\ InFlight(t)
    /\ \E s \in ErrorStatuses :
          /\ ~ShouldRefresh(s)
          /\ cur' = [task |-> t, val |-> ErrorValue("passthrough", s)]
    /\ stack' = [stack EXCEPT ![t] = Pop(@)]
    /\ UNCHANGED <<session, minted, requests>>
    /\ UNCHANGED <<broker, peer>>


\* --------------------------------------------- continuations after an await
\* The function at the top of the chain of call t receives the value.
Resumes(t, f, phase) ==
    /\ cur.task = t
    /\ stack[t] # <<>>
    /\ Top(stack[t]).f = f
    /\ Top(stack[t]).phase = phase

Hand(t, v) == cur' = [task |-> t, val |-> v]

\* Response interceptor, line 32: refreshToken() returned, so the failed
\* request is sent again with error.config, whose headers are those the
\* request went out with; the request interceptors run on it again.
Resend(frame, hs, nw, refreshed) == Send(frame.url, hs, frame.auth, TRUE, nw, refreshed)

InterceptorRetry(t) ==
    /\ Resumes(t, "req", "refreshing")
    /\ cur.val.kind = "return"
    /\ stack' = [stack EXCEPT ![t] =
          Append([@ EXCEPT ![Len(@)].phase = "retrying"],
                 Resend(Top(@), handlers, newest, cur.val.tok))]
    /\ cur' = Idle
    /\ requests' = requests + 1
    /\ UNCHANGED <<session, minted>>
    /\ UNCHANGED <<broker, peer>>

\* Response interceptor, lines 33-35: refreshToken() threw; the error of the
\* failed request is returned (the promise resolves with it).
CaughtRefreshFailureRethrown(frame) == Throw("catch", frame.status, "Refresh token failed")
CaughtRefreshFailure(frame) == ErrorValue("catch", frame.status)

InterceptorCatch(t) ==
    /\ Resumes(t, "req", "refreshing")
    /\ cur.val.kind = "throw"
    /\ Hand(t, CaughtRefreshFailure(Top(stack[t])))
    /\ stack' = [stack EXCEPT ![t] = Pop(@)]
    /\ UNCHANGED <<session, minted, requests>>
    /\ UNCHANGED <<broker, peer>>

\* Response interceptor, line 32: `return await this._client.request(...)`
\* hands on whatever the re-sent request settled with.
RetryResult(v) == v

InterceptorReturnRetry(t) ==
    /\ Resumes(t, "req", "retrying")
    /\ Hand(t, RetryResult(cur.val))
    /\ stack' = [stack EXCEPT ![t] = Pop(@)]
    /\ UNCHANGED <<session, minted, requests>>
    /\ UNCHANGED <<broker, peer>>

\* authWithDiscord, lines 92-95.  The awaited value is an axios response, or
\* (after a failure, which the response interceptor turned into a resolved
\* value) an error object: it has no `data`, so reading data.access throws a
\* TypeError before anything is stored.
AuthContinue(t) ==
    /\ Resumes(t, "authWithDiscord", "post")
    /\ IF cur.val.kind = "response"
       THEN /\ userRefreshToken' = cur.val.rtok
            /\ handlers' = InstallHook(handlers, cur.val.tok)
            /\ listeners' = SubscribeEject(listeners, handlers)
            /\ newest' = cur.val.tok
            /\ Hand(t, Return("authWithDiscord", cur.val.status, NoToken, NoUser))
       ELSE /\ Hand(t, Throw("authWithDiscord", cur.val.status, "TypeError"))
            /\ UNCHANGED <<userRefreshToken, handlers, listeners, newest>>
    /\ stack' = [stack EXCEPT ![t] = Pop(@)]
    /\ UNCHANGED <<user, logoutEvents, loginEvents, minted, requests>>
    /\ UNCHANGED <<broker, peer>>

\* refreshToken, lines 105-107 and 109-111.  On a response: install the new
\* access credential and call fetchUser(), which sends its request.  On an
\* error object `response.data.token` throws, the catch rethrows the
\* normalized error.
RefreshAfterPost(t) ==
    /\ Resumes(t, "refreshToken", "post")
    /\ IF cur.val.kind = "response"
       THEN /\ handlers' = InstallHook(handlers, cur.val.tok)
            /\ listeners' = SubscribeEject(listeners, handlers)
            /\ newest' = cur.val.tok
            /\ stack' = [stack EXCEPT ![t] =
                  [@ EXCEPT ![Len(@)].phase = "fetch", ![Len(@)].data = cur.val.tok,
                            ![1].changed = TRUE]
                  \o FetchUserRequest(handlers', newest')]
            /\ requests' = requests + 1
            /\ cur' = Idle
       ELSE /\ Hand(t, Throw("refreshToken", cur.val.status, "Refresh token failed"))
            /\ stack' = [stack EXCEPT ![t] = Pop(@)]
            /\ UNCHANGED <<handlers, listeners, newest, requests>>
    /\ UNCHANGED <<userRefreshToken, user, logoutEvents, loginEvents, minted>>
    /\ UNCHANGED <<broker, peer>>

\* refreshToken, lines 107-111: fetchUser() settled; return response.data, or
\* the normalized error had fetchUser thrown.
RefreshResult(frame, v) ==
    IF v.kind = "throw"
    THEN Throw("refreshToken", v.status, "Refresh token failed")
    ELSE Return("refreshToken", v.status, frame.data, NoUser)

RefreshAfterFetch(t) ==
    /\ Resumes(t, "refreshToken", "fetch")
    /\ Hand(t, RefreshResult(Top(stack[t]), cur.val))
    /\ stack' = [stack EXCEPT ![t] = Pop(@)]
    /\ UNCHANGED <<session, minted, requests>>
    /\ UNCHANGED <<broker, peer>>

\* fetchUser, lines 126-128: `const { data: user } = await ...`.  An error
\* object has no `data`: user is undefined, it is stored and returned.
FetchedUser(v) == IF v.kind = "response" THEN v.usr ELSE NoUser

FetchUserContinue(t) ==
    /\ Resumes(t, "fetchUser", "get")
    /\ user' = FetchedUser(cur.val)
    /\ Hand(t, Return("fetchUser", cur.val.status, NoToken, user'))
    /\ stack' = [stack EXCEPT ![t] = Pop(@)]
    /\ UNCHANGED <<userRefreshToken, handlers, listeners, logoutEvents, loginEvents,
                   minted, newest, requests>>
    /\ UNCHANGED <<broker, peer>>

\* logout, lines 117-122.  The awaited request resolved (with a response or
\* with an error object, the result is not looked at): clear the session and
\* emit 'logout'.  Had the await thrown, the catch throws 'Logout failed'.
LogoutUserKept == user
LogoutUser == NoUser
LogoutRefreshToken == NoToken

LogoutContinue(t) ==
    /\ Resumes(t, "logout", "post")
    /\ IF cur.val.kind = "throw"
       THEN /\ Hand(t, Throw("logout", cur.val.status, "Logout failed"))
            /\ UNCHANGED <<user, userRefreshToken, handlers, logoutEvents, newest>>
            /\ UNCHANGED peerHandlers
       ELSE /\ user' = LogoutUser
            /\ userRefreshToken' = LogoutRefreshToken
            /\ handlers' = EmitLogout(handlers, listeners)
            /\ peerHandlers' = EmitLogout(peerHandlers, peerListeners)
            /\ logoutEvents' = logoutEvents + 1
            /\ newest' = NoToken
            /\ Hand(t, Return("logout", cur.val.status, NoToken, NoUser))
    /\ stack' = [stack EXCEPT ![t] = Pop(@)]
    /\ UNCHANGED <<listeners, loginEvents, minted, requests>>
    /\ UNCHANGED <<broker, peerRefreshToken, peerUser, peerListeners>>

\* The promise of the call settles: its caller has the result.
Settle(t) ==
    /\ cur.task = t
    /\ stack[t] = <<>>
    /\ cur' = Idle
    /\ UNCHANGED <<session, minted, requests, stack>>
    /\ UNCHANGED <<broker, peer>>

\* ---------------------------------------------------------- specification
Init ==
    /\ userRefreshToken = NoToken
    /\ user = NoUser
    /\ handlers = <<>>
    /\ listeners = <<>>
    /\ logoutEvents = 0
    /\ loginEvents = 0
    /\ minted = 0
    /\ newest = NoToken
    /\ requests = 0
    /\ stack = [t \in Tasks |-> <<>>]
    /\ cur = Idle
    /\ peerRefreshToken = NoToken
    /\ peerUser = NoUser
    /\ peerHandlers = <<>>
    /\ peerListeners = <<>>
    /\ actions = <<>>
    /\ messageListeners = <<>>
    /\ messages = 0
    /\ lastMessage = NoMessage

Next ==
    \E t \in Tasks :
        \/ StartAuth(t)
        \/ StartRefresh(t)
        \/ StartLogout(t)
        \/ StartFetchUser(t)
        \/ Respond2xx(t)
        \/ Respond401Refresh(t)
        \/ RespondFail(t)
        \/ InterceptorRetry(t)
        \/ InterceptorCatch(t)
        \/ InterceptorReturnRetry(t)
        \/ AuthContinue(t)
        \/ RefreshAfterPost(t)
        \/ RefreshAfterFetch(t)
        \/ FetchUserContinue(t)
        \/ LogoutContinue(t)
        \/ Settle(t)

Spec == Init /\ [][Next]_vars

(***************************************************************************)
(* A second instance on the same page.  Its calls are taken whole, request *)
(* and 2xx answer in one step; what matters here is that both instances    *)
(* subscribe to and emit on the one module-level emitter.                  *)
(***************************************************************************)
PeerCanCall == cur = Idle /\ requests < MaxRequests

\* authWithDiscord of the second instance, answered 2xx.
PeerAuthWithDiscord ==
    /\ PeerCanCall
    /\ requests' = requests + 1
    /\ minted' = minted + 1
    /\ peerRefreshToken' = RefreshCredential(minted')
    /\ peerHandlers' = InstallHook(peerHandlers, AccessToken(minted'))
    /\ peerListeners' = SubscribeEject(peerListeners, peerHandlers)
    /\ UNCHANGED <<session, stack, cur, peerUser, broker>>

\* fetchUser of the second instance, answered 2xx.
PeerFetchUser ==
    /\ PeerCanCall
    /\ requests' = requests + 1
    /\ \E u \in Users : peerUser' = u
    /\ UNCHANGED <<session, minted, stack, cur, broker>>
    /\ UNCHANGED <<peerRefreshToken, peerHandlers, peerListeners>>

\* logout of the second instance, answered 2xx: its emit reaches every
\* listener of the emitter, those of the first instance included.
PeerLogout ==
    /\ PeerCanCall
    /\ requests' = requests + 1
    /\ peerUser' = NoUser
    /\ peerRefreshToken' = NoToken
    /\ peerHandlers' = EmitLogout(peerHandlers, peerListeners)
    /\ handlers' = EmitLogout(handlers, listeners)
    /\ logoutEvents' = logoutEvents + 1
    /\ UNCHANGED <<userRefreshToken, user, listeners, loginEvents, newest>>
    /\ UNCHANGED <<minted, stack, cur, peerListeners, broker>>

\* The Authorization header a request of the second instance leaves with.
PeerAuthorization == RunRequestInterceptors(peerHandlers, NoToken)

NextTwo ==
    \/ Next
    \/ PeerAuthWithDiscord
    \/ PeerFetchUser
    \/ PeerLogout

SpecTwo == Init /\ [][NextTwo]_vars

(***************************************************************************)
(* The out-of-band actions.  Each call opens a popup and adds a 'message'  *)
(* listener to the window; the listener keeps the popup and the promise of *)
(* its call.  Nothing removes a listener.                                  *)
(***************************************************************************)
Action(op, popup, promise) ==
    [op |-> op, popup |-> popup, promise |-> promise, closes |-> 0]

\* new Promise(...) of createWallet / signTransaction
OutOfBand(op, outcome) ==
    /\ Len(actions) < MaxActions
    /\ IF outcome = "throws"
       THEN /\ actions' = Append(actions, Action(op, "none", "rejected"))
            /\ UNCHANGED messageListeners
       ELSE /\ actions' = Append(actions,
                    Action(op, IF outcome = "window" THEN "open" ELSE "none", "pending"))
            /\ messageListeners' = Append(messageListeners, Len(actions) + 1)
    /\ UNCHANGED <<messages, lastMessage, client, peer>>

createWallet(outcome) == OutOfBand("createWallet", outcome)

signTransaction(outcome) == OutOfBand("signTransaction", outcome)

\* event.origin === this.baseURL
HonouredAnyOrigin(origin) == TRUE
Honoured(origin) == origin = baseURL

\* popup.close()
PopupClose(a) == [a EXCEPT !.popup = "closed", !.closes = @ + 1]

\* resolve(): settles a pending promise, does nothing to a settled one
Resolve(a) == [a EXCEPT !.promise = IF @ = "pending" THEN "resolved" ELSE @]

\* the listener of one call, run for one message event
OnMessage(a, origin, data) ==
    IF Honoured(origin)
    THEN Resolve(IF a.popup # "none" /\ data = "close" THEN PopupClose(a) ELSE a)
    ELSE a

\* The window runs every listener added to it.
DispatchToFirst(ls) == IF ls = <<>> THEN {} ELSE {ls[1]}
Dispatch(ls) == {ls[j] : j \in DOMAIN ls}

\* A message event arrives at the window.
PostMessage(origin, data) ==
    /\ messages < MaxMessages
    /\ messages' = messages + 1
    /\ lastMessage' = Message(origin, data)
    /\ actions' = [i \in DOMAIN actions |->
                      IF i \in Dispatch(messageListeners)
                      THEN OnMessage(actions[i], origin, data)
                      ELSE actions[i]]
    /\ UNCHANGED <<messageListeners, client, peer>>

NextBroker ==
    \/ \E outcome \in OpenOutcomes : createWallet(outcome)
    \/ \E outcome \in OpenOutcomes : signTransaction(outcome)
    \/ \E origin \in Origins, data \in Payloads : PostMessage(origin, data)

SpecBroker == Init /\ [][NextBroker]_vars


\* ------------------------------------------------------------------ claims
\* The requests in flight or being handled, with the call they belong to.
Requests == {<<t, i>> \in Tasks \X (1..(2 * MaxRequests + 4)) :
                i <= Len(stack[t]) /\ stack[t][i].f = "req"}
Req(p) == stack[p[1]][p[2]]

\* C1: with a credential installed (a login or refresh completed and no
\* logout since), every request other than the refresh request itself carries
\* the access token of the most recently completed login/refresh.
C1_RequestsCarryNewestCredential ==
    \A p \in Requests :
        (Req(p).expect # NoToken /\ Req(p).url # "/api/auth/refresh")
            => Req(p).auth = Req(p).expect

\* C2: when the remote logout call fails, logout() fails with 'Logout
\* failed', the stored user and refresh credential stay as they were and no
\* logout event is emitted.
C2_FailedRemoteLogoutKeepsSession ==
    [][\A t \in Tasks :
         (Resumes(t, "logout", "post") /\ cur.val.kind # "response")
            => /\ cur'.val.kind = "throw"
               /\ cur'.val.msg = "Logout failed"
               /\ user' = user
               /\ userRefreshToken' = userRefreshToken
               /\ logoutEvents' = logoutEvents]_vars

\* C3: a request re-sent after a 401 and a successful refresh carries the
\* access credential that refresh returned, and is the only re-send (it is
\* not itself refreshed and re-sent again).
C3_RetryOnceWithRefreshedCredential ==
    \A p \in Requests :
        Req(p).retry => (Req(p).auth = Req(p).data /\ Req(p).phase = "sent")

\* C4: the handling of one caller request starts at most one refresh cycle:
\* no request is sent from inside a refresh cycle that is itself inside a
\* refresh cycle.
C4_AtMostOneRefreshCycle ==
    \A p \in Requests : Nesting(stack[p[1]], p[2]) <= 1

\* C5: when the refresh started by a 401 fails, the interceptor hands the
\* original 401 failure back as a resolved value (it does not throw), and
\* the failed request is not sent again: the request is over and no request
\* is sent in that step.
C5_FailedRefreshReturnsOriginalError ==
    [][\A t \in Tasks :
         (Resumes(t, "req", "refreshing") /\ cur.val.kind = "throw")
            => /\ cur'.task = t
               /\ cur'.val.kind = "error"
               /\ cur'.val.status = 401
               /\ stack'[t] = Pop(stack[t])
               /\ requests' = requests
               /\ session' = session]_vars

C5_Witness == cur.val.by = "catch" /\ cur.val.kind = "error"


\* C6: after a successful logout no access-credential hook is installed, and
\* a request sent while no credential has been installed since carries no
\* Authorization header.
C6_NoCredentialAfterLogout ==
    /\ (cur.val.by = "logout" /\ cur.val.kind = "return") => ActiveHooks = {}
    /\ \A p \in Requests : Req(p).expect = NoToken => Req(p).auth = NoToken

\* C7: a successful logout() clears the stored user and the stored refresh
\* credential, so isLoggedIn is false right after it, and it emits exactly one
\* logout event; nothing else emits one.
C7_LogoutClearsSessionAndEmitsOnce ==
    [][/\ \A t \in Tasks :
            (Resumes(t, "logout", "post") /\ cur'.val.kind = "return")
               => /\ user' = NoUser
                  /\ userRefreshToken' = NoToken
                  /\ ~isLoggedIn'
                  /\ logoutEvents' = logoutEvents + 1
       /\ logoutEvents' # logoutEvents
            => \E t \in Tasks : Resumes(t, "logout", "post")]_vars

C7_Witness ==
    /\ cur.val.by = "logout"
    /\ cur.val.kind = "return"
    /\ Len(handlers) > 0
    /\ logoutEvents = 1

\* C8: when the auth endpoint rejects the credentials, authWithDiscord
\* rejects, and the call has changed neither the stored refresh credential
\* nor the installed hooks.
C8_RejectedLoginCommitsNothing ==
    \A t \in Tasks :
        (Resumes(t, "authWithDiscord", "post") /\ cur.val.kind = "error")
            => ~stack[t][1].changed

\* C9: refreshToken() fails with 'Refresh token failed' whenever the refresh
\* request or the user fetch after it failed, and whenever no refresh
\* credential is stored; it returns no credential then.
C9_RefreshFailsUniformly ==
    (cur.val.by = "refreshToken" /\ cur.val.status # 200)
        => /\ cur.val.kind = "throw"
           /\ cur.val.msg = "Refresh token failed"
           /\ cur.val.tok = NoToken

\* C10: when refreshToken() returns, the stored user is the present user its
\* fetch produced.
C10_RefreshLeavesPresentUser ==
    (cur.val.by = "refreshToken" /\ cur.val.kind = "return") => user # NoUser


\* C11: every request sent to the refresh endpoint carries a refresh
\* credential as its Authorization value, never an access credential.
C11_RefreshRequestCarriesRefreshCredential ==
    \A p \in Requests :
        Req(p).url = "/api/auth/refresh" => Req(p).auth[1] = "refresh"

\* C12: when its request fails, fetchUser() rejects and leaves the stored
\* user as it was.
C12_FetchUserPropagatesFailure ==
    [][\A t \in Tasks :
         (Resumes(t, "fetchUser", "get") /\ cur.val.kind = "error")
            => /\ cur'.val.kind = "throw"
               /\ user' = user]_vars

\* C13: every successful authWithDiscord publishes one login event, and a
\* login event is published by nothing else.
C13_LoginEventOnSuccessfulLogin ==
    [][/\ \A t \in Tasks :
            (Resumes(t, "authWithDiscord", "post") /\ cur'.val.kind = "return")
               => loginEvents' = loginEvents + 1
       /\ loginEvents' # loginEvents
            => \E t \in Tasks :
                  Resumes(t, "authWithDiscord", "post") /\ cur'.val.kind = "return"]_vars

\* C16: at most one access-credential request hook is installed at any time.
C16_AtMostOneHookInstalled == Cardinality(ActiveHooks) <= 1

\* C17: when two refreshToken() calls overlap and both have succeeded, each
\* has installed its own hook, and the requests sent from then on carry the
\* credential of the one that completed last.
BothRefreshed(t, o) ==
    /\ t # o
    /\ stack[t] # <<>> /\ stack[o] # <<>>
    /\ stack[t][1].f = "refreshToken" /\ stack[t][1].phase = "fetch"
    /\ stack[o][1].f = "refreshToken" /\ stack[o][1].phase = "fetch"

C17_LastOverlappingRefreshWins ==
    \A t, o \in Tasks :
        BothRefreshed(t, o)
            => /\ stack[t][1].data # stack[o][1].data
               /\ \E i, j \in ActiveHooks :
                     /\ i # j
                     /\ handlers[i] = stack[t][1].data
                     /\ handlers[j] = stack[o][1].data
               /\ \A p \in Requests :
                     (Req(p).expect = newest /\ Req(p).url # "/api/auth/refresh")
                        => Req(p).auth = newest

\* C20: a successful authWithDiscord does not store a user, and isLoggedIn
\* becomes true only in a step that stores a fetched, present user.
C20_LoggedInOnlyAfterUserFetch ==
    [][/\ \A t \in Tasks :
            (Resumes(t, "authWithDiscord", "post") /\ cur'.val.kind = "return")
               => user' = user
       /\ (~isLoggedIn /\ isLoggedIn')
            => \E t \in Tasks : Resumes(t, "fetchUser", "get") /\ user' # NoUser]_vars


\* C20 (amended): a successful authWithDiscord leaves the stored user as it
\* was, so with no user stored isLoggedIn is false right after it; and
\* isLoggedIn becomes true only in a step that stores a fetched, present user
\* while a refresh credential is stored, or in a successful login that finds
\* a user an earlier fetch stored.
LoginSucceeds(t) ==
    Resumes(t, "authWithDiscord", "post") /\ cur'.val.kind = "return"

C20_LoginStoresNoUser ==
    [][/\ \A t \in Tasks :
            LoginSucceeds(t)
               => /\ user' = user
                  /\ userRefreshToken' # NoToken
                  /\ Len(handlers') = Len(handlers) + 1
                  /\ (user = NoUser => ~isLoggedIn')
       /\ (~isLoggedIn /\ isLoggedIn')
            => \/ \E t \in Tasks :
                     /\ Resumes(t, "fetchUser", "get")
                     /\ user' # NoUser
                     /\ userRefreshToken # NoToken
               \/ \E t \in Tasks : LoginSucceeds(t) /\ user # NoUser]_vars

C20_Witness ==
    /\ cur.val.by = "authWithDiscord"
    /\ cur.val.kind = "return"
    /\ userRefreshToken # NoToken
    /\ ActiveHooks # {}
    /\ user = NoUser
    /\ ~isLoggedIn


\* A step in which a message event arrives at the window.
MessageArrives == messages' = messages + 1

\* C14: for a pending createWallet or signTransaction, a message from an
\* origin other than the base URL changes nothing; a message from the base
\* origin resolves the promise, closing the popup when the payload is 'close'
\* and leaving it alone otherwise; a step without a message leaves the action
\* pending.
C14_OnlyBaseOriginMessagesSettle ==
    [][\A i \in DOMAIN actions :
         actions[i].promise = "pending" =>
            IF ~MessageArrives \/ lastMessage'.origin # baseURL
            THEN actions'[i] = actions[i]
            ELSE /\ actions'[i].promise = "resolved"
                 /\ actions'[i].op = actions[i].op
                 /\ IF lastMessage'.data = "close" /\ actions[i].popup # "none"
                    THEN /\ actions'[i].popup = "closed"
                         /\ actions'[i].closes = actions[i].closes + 1
                    ELSE /\ actions'[i].popup = actions[i].popup
                         /\ actions'[i].closes = actions[i].closes]_vars

\* One action resolved with its popup closed by a 'close' from the base
\* origin, another still pending with its popup open after a message from
\* another origin.
C14_Witness ==
    /\ lastMessage.origin \in Origins \ {baseURL}
    /\ \E i, j \in DOMAIN actions :
          /\ actions[i].promise = "resolved" /\ actions[i].popup = "closed"
          /\ actions[j].promise = "pending" /\ actions[j].popup = "open"

\* C15: once an honoured message has resolved an action, no later message
\* has any effect on it; in particular its popup is not closed again.
C15_ListenerIsOneShot ==
    [][\A i \in DOMAIN actions :
         actions[i].promise = "resolved" => actions'[i] = actions[i]]_vars

\* A step of the first instance: every one of them moves a call of its own.
FirstInstanceStep == stack' # stack \/ cur' # cur

\* C18: no step of one instance changes the stored user, the stored refresh
\* credential or the installed hooks of the other instance, nor the
\* credential the other instance's requests carry.
C18_InstancesShareNoSessionState ==
    [][FirstInstanceStep =>
         /\ UNCHANGED <<peerUser, peerRefreshToken, peerHandlers>>
         /\ PeerAuthorization' = PeerAuthorization]_vars

\* C19: one message from the base origin leaves no action pending, whichever
\* call it relates to, and with payload 'close' leaves no popup open.
C19_OneMessageSettlesEveryAction ==
    [][(MessageArrives /\ lastMessage'.origin = baseURL) =>
         \A i \in DOMAIN actions' :
            /\ actions[i].promise = "pending" => actions'[i].promise = "resolved"
            /\ actions'[i].promise # "pending"
            /\ lastMessage'.data = "close" => actions'[i].popup # "open"]_vars

\* Two calls, a createWallet and a signTransaction, both resolved and both
\* popups closed by a single message.
C19_Witness ==
    /\ messages = 1
    /\ Len(actions) = 2
    /\ actions[1].op # actions[2].op
    /\ \A i \in DOMAIN actions :
          actions[i].promise = "resolved" /\ actions[i].popup = "closed"

====
